---- MODULE Spec2Model ----
(***************************************************************************)
(* Payments engine: replay of an ordered stream of transaction records     *)
(* (deposit, withdrawal, dispute, resolve, chargeback) against per-client  *)
(* ledgers, as implemented by process_transactions in src/src/main.rs.     *)
(*                                                                         *)
(* Amounts are f64 in the program.  They are modelled as exact integers    *)
(* counted in the smallest input unit (0.0001), so that MIN_POSITIVE, the  *)
(* smallest accepted amount, is 1.  F64_MAX stands for the largest finite  *)
(* value of total: a total above it is the program's +infinity.            *)
(***************************************************************************)
EXTENDS Integers, Sequences, FiniteSets, TLC

\* ---- bounds of the model ----
MaxClient == 2      \* client ids are 1..MaxClient
MaxTx == 2          \* transaction ids are 1..MaxTx
MaxAmount == 2      \* amounts in the input are -1..MaxAmount, or absent
MaxRecords == 5     \* length of the input
F64_MAX == 3        \* largest finite total (scaled stand-in for f64::MAX)

\* smallest positive amount (f64::MIN_POSITIVE, in model units)
MIN_POSITIVE == 1

\* ---- Option<f64> ----
None == <<>>
Some(v) == <<v>>
unwrap(o) == o[1]

ClientIds == 1..MaxClient
TxIds == 1..MaxTx
Amounts == (0 - 1)..MaxAmount

\* enum TransactionCategory
TransactionCategory == {"Deposit", "Withdrawal", "Dispute", "Resolve", "Chargeback"}

\* struct Transaction
Transaction(category, client_id, tx, amount) ==
    [category |-> category, client_id |-> client_id, tx |-> tx, amount |-> amount]

\* The records the input may hold.  Deposits and withdrawals carry an amount
\* or none; the three dispute kinds carry none (the code never reads it).
DepositRecords ==
    {Transaction("Deposit", c, x, a) :
        c \in ClientIds, x \in TxIds, a \in {None} \cup {Some(v) : v \in Amounts}}
WithdrawalRecords ==
    {Transaction("Withdrawal", c, x, a) :
        c \in ClientIds, x \in TxIds, a \in {None} \cup {Some(v) : v \in Amounts}}
DisputeRecords == {Transaction("Dispute", c, x, None) : c \in ClientIds, x \in TxIds}
ResolveRecords == {Transaction("Resolve", c, x, None) : c \in ClientIds, x \in TxIds}
ChargebackRecords == {Transaction("Chargeback", c, x, None) : c \in ClientIds, x \in TxIds}

\* impl Default for Client
DefaultClient == [available |-> 0, held |-> 0, total |-> 0, locked |-> FALSE]

VARIABLES
    clients,               \* HashMap<u16, Client>
    transactions_history,  \* HashMap<u32, Transaction>
    ongoing_disputes,      \* HashSet<u32>
    t,                     \* the record of the latest loop iteration (<<>> before the first)
    csv_line,              \* number of records consumed
    result,                \* "running", "Ok", "Err" (returned Err) or "panic" (expect failed)
    charged_back           \* history variable: ids on which charge_back was applied

vars == <<clients, transactions_history, ongoing_disputes, t, csv_line, result, charged_back>>

\* clients.entry(id).or_default(), as a read
entry_or_default(cs, id) == IF id \in DOMAIN cs THEN cs[id] ELSE DefaultClient

\* HashMap::insert: adds the key or replaces the value under it
insert(m, k, v) == [x \in (DOMAIN m) \cup {k} |-> IF x = k THEN v ELSE m[x]]

\* fn deposit
deposit(amount, client) ==
    IF amount < MIN_POSITIVE
    THEN [client |-> client, ret |-> "Err"]
    ELSE LET c1 == [client EXCEPT !.available = @ + amount, !.total = @ + amount]
         IN  IF c1.total > F64_MAX
             THEN [client |-> c1, ret |-> "Err"]
             ELSE [client |-> c1, ret |-> "Ok"]

\* withdraw without the comparison against available
withdraw_unchecked(amount, client) ==
    IF amount < MIN_POSITIVE
    THEN [client |-> client, ret |-> "Err"]
    ELSE [client |-> [client EXCEPT !.available = @ - amount, !.total = @ - amount],
          ret |-> "OkTrue"]

\* fn withdraw
withdraw(amount, client) ==
    IF amount < MIN_POSITIVE
    THEN [client |-> client, ret |-> "Err"]
    ELSE IF amount < client.available
         THEN [client |-> [client EXCEPT !.available = @ - amount, !.total = @ - amount],
               ret |-> "OkTrue"]
         ELSE [client |-> client, ret |-> "OkFalse"]

\* dispute without the test that the id is not already disputed
dispute_twice(id, history, disputes, client) ==
    IF id \in DOMAIN history /\ history[id].category = "Deposit"
    THEN LET amount == unwrap(history[id].amount)
         IN  [client |-> [client EXCEPT !.available = @ - amount, !.held = @ + amount],
              disputes |-> disputes \cup {history[id].tx},
              panic |-> FALSE]
    ELSE [client |-> client, disputes |-> disputes, panic |-> FALSE]

\* dispute that takes the amount from available without holding it
dispute_no_hold(id, history, disputes, client) ==
    IF id \notin disputes /\ id \in DOMAIN history /\ history[id].category = "Deposit"
    THEN LET amount == unwrap(history[id].amount)
         IN  [client |-> [client EXCEPT !.available = @ - amount],
              disputes |-> disputes \cup {history[id].tx},
              panic |-> FALSE]
    ELSE [client |-> client, disputes |-> disputes, panic |-> FALSE]

\* fn dispute
dispute(id, history, disputes, client) ==
    IF id \notin disputes /\ id \in DOMAIN history /\ history[id].category = "Deposit"
    THEN IF history[id].amount = None
         THEN [client |-> client, disputes |-> disputes, panic |-> TRUE]
         ELSE LET amount == unwrap(history[id].amount)
              IN  [client |-> [client EXCEPT !.available = @ - amount, !.held = @ + amount],
                   disputes |-> disputes \cup {history[id].tx},
                   panic |-> FALSE]
    ELSE [client |-> client, disputes |-> disputes, panic |-> FALSE]

\* resolve that returns the funds but leaves the id under dispute
resolve_keeps_dispute(id, history, disputes, client) ==
    IF id \in disputes /\ id \in DOMAIN history /\ history[id].category = "Deposit"
    THEN LET amount == unwrap(history[id].amount)
         IN  [client |-> [client EXCEPT !.available = @ + amount, !.held = @ - amount],
              disputes |-> disputes,
              panic |-> FALSE]
    ELSE [client |-> client, disputes |-> disputes, panic |-> FALSE]

\* fn resolve
resolve(id, history, disputes, client) ==
    IF id \in disputes /\ id \in DOMAIN history /\ history[id].category = "Deposit"
    THEN IF history[id].amount = None
         THEN [client |-> client, disputes |-> disputes, panic |-> TRUE]
         ELSE LET amount == unwrap(history[id].amount)
              IN  [client |-> [client EXCEPT !.available = @ + amount, !.held = @ - amount],
                   disputes |-> disputes \ {history[id].tx},
                   panic |-> FALSE]
    ELSE [client |-> client, disputes |-> disputes, panic |-> FALSE]

\* charge_back that releases the held funds but keeps them in total
charge_back_keeps_total(id, history, disputes, client) ==
    IF id \in disputes /\ id \in DOMAIN history /\ history[id].category = "Deposit"
    THEN LET amount == unwrap(history[id].amount)
         IN  [client |-> [client EXCEPT !.held = @ - amount, !.locked = TRUE],
              disputes |-> disputes \ {history[id].tx},
              panic |-> FALSE]
    ELSE [client |-> client, disputes |-> disputes, panic |-> FALSE]

\* charge_back without the test that the id is under dispute
charge_back_undisputed(id, history, disputes, client) ==
    IF id \in DOMAIN history /\ history[id].category = "Deposit"
    THEN LET amount == unwrap(history[id].amount)
         IN  [client |-> [client EXCEPT !.held = @ - amount, !.total = @ - amount,
                                        !.locked = TRUE],
              disputes |-> disputes \ {history[id].tx},
              panic |-> FALSE]
    ELSE [client |-> client, disputes |-> disputes, panic |-> FALSE]

\* fn charge_back
charge_back(id, history, disputes, client) ==
    IF id \in disputes /\ id \in DOMAIN history /\ history[id].category = "Deposit"
    THEN IF history[id].amount = None
         THEN [client |-> client, disputes |-> disputes, panic |-> TRUE]
         ELSE LET amount == unwrap(history[id].amount)
              IN  [client |-> [client EXCEPT !.held = @ - amount, !.total = @ - amount,
                                             !.locked = TRUE],
                   disputes |-> disputes \ {history[id].tx},
                   panic |-> FALSE]
    ELSE [client |-> client, disputes |-> disputes, panic |-> FALSE]

\* the match of process_transactions on the record's category, for an
\* unlocked client: the new client, history, dispute set and outcome
dispatch(rec, client, history, disputes) ==
    CASE rec.category = "Deposit" ->
            IF rec.amount = None
            THEN [client |-> client, history |-> history, disputes |-> disputes,
                  result |-> "panic"]
            ELSE LET d == deposit(unwrap(rec.amount), client)
                 IN  IF d.ret = "Err"
                     THEN [client |-> d.client, history |-> history,
                           disputes |-> disputes, result |-> "Err"]
                     ELSE [client |-> d.client, history |-> insert(history, rec.tx, rec),
                           disputes |-> disputes, result |-> "running"]
      [] rec.category = "Withdrawal" ->
            IF rec.amount = None
            THEN [client |-> client, history |-> history, disputes |-> disputes,
                  result |-> "panic"]
            ELSE LET w == withdraw(unwrap(rec.amount), client)
                 IN  IF w.ret = "Err"
                     THEN [client |-> w.client, history |-> history,
                           disputes |-> disputes, result |-> "Err"]
                     ELSE [client |-> w.client,
                           history |-> IF w.ret = "OkTrue"
                                       THEN insert(history, rec.tx, rec) ELSE history,
                           disputes |-> disputes, result |-> "running"]
      [] rec.category = "Dispute" ->
            LET r == dispute(rec.tx, history, disputes, client)
            IN  [client |-> r.client, history |-> history, disputes |-> r.disputes,
                 result |-> IF r.panic THEN "panic" ELSE "running"]
      [] rec.category = "Resolve" ->
            LET r == resolve(rec.tx, history, disputes, client)
            IN  [client |-> r.client, history |-> history, disputes |-> r.disputes,
                 result |-> IF r.panic THEN "panic" ELSE "running"]
      [] rec.category = "Chargeback" ->
            LET r == charge_back(rec.tx, history, disputes, client)
            IN  [client |-> r.client, history |-> history, disputes |-> r.disputes,
                 result |-> IF r.panic THEN "panic" ELSE "running"]

\* the loop body without the test of the locked flag
process_record_ignoring_lock(rec, client, history, disputes) ==
    dispatch(rec, client, history, disputes)

\* one iteration of the loop of process_transactions: fetch or create the
\* client of the record and, unless it is locked, apply the record to it
process_record(rec, client, history, disputes) ==
    IF ~client.locked
    THEN dispatch(rec, client, history, disputes)
    ELSE [client |-> client, history |-> history, disputes |-> disputes,
          result |-> "running"]

Init ==
    /\ clients = <<>>
    /\ transactions_history = <<>>
    /\ ongoing_disputes = {}
    /\ t = <<>>
    /\ csv_line = 0
    /\ result = "running"
    /\ charged_back = {}

\* the loop body of process_transactions on the next input record rec
ProcessTransaction(rec) ==
    /\ result = "running"
    /\ csv_line < MaxRecords
    /\ LET client == entry_or_default(clients, rec.client_id)
           r == process_record(rec, client, transactions_history, ongoing_disputes)
       IN  /\ clients' = insert(clients, rec.client_id, r.client)
           /\ transactions_history' = r.history
           /\ ongoing_disputes' = r.disputes
           /\ result' = r.result
           /\ charged_back' =
                 IF rec.category = "Chargeback" /\ ~client.locked /\ r.client.locked
                 THEN charged_back \cup {rec.tx} ELSE charged_back
    /\ t' = <<rec>>
    /\ csv_line' = csv_line + 1

Deposit == \E rec \in DepositRecords : ProcessTransaction(rec)
Withdrawal == \E rec \in WithdrawalRecords : ProcessTransaction(rec)
Dispute == \E rec \in DisputeRecords : ProcessTransaction(rec)
Resolve == \E rec \in ResolveRecords : ProcessTransaction(rec)
Chargeback == \E rec \in ChargebackRecords : ProcessTransaction(rec)

\* the input is exhausted: process_transactions returns Ok(())
Finish ==
    /\ result = "running"
    /\ result' = "Ok"
    /\ UNCHANGED <<clients, transactions_history, ongoing_disputes, t, csv_line, charged_back>>

Next == Deposit \/ Withdrawal \/ Dispute \/ Resolve \/ Chargeback \/ Finish

Spec == Init /\ [][Next]_vars

\* ---- helpers of the properties ----
\* this step consumed a record (it is then t'[1])
Consumed == csv_line' = csv_line + 1
\* the account of client c before and after the step
Pre(c) == entry_or_default(clients, c)
Post(c) == entry_or_default(clients', c)
\* the balances and flags of every account are as before the step
LedgersUnchanged == \A c \in ClientIds : Post(c) = Pre(c)
StoresUnchanged ==
    /\ transactions_history' = transactions_history
    /\ ongoing_disputes' = ongoing_disputes

\* C1: after any prefix of any input, every account of the clients map has
\* total = available + held.
C1_TotalIsAvailablePlusHeld ==
    \A c \in DOMAIN clients :
        clients[c].total = clients[c].available + clients[c].held

\* a charged-back account with funds left, next to an account with held funds
C1_Witness ==
    \E c, d \in DOMAIN clients :
        /\ clients[c].locked /\ clients[c].total > 0
        /\ clients[d].held > 0 /\ clients[d].available # 0

\* C2: a locked account stays locked and no later record changes its
\* available, held or total.
C2_FreezeFinality ==
    [][\A c \in DOMAIN clients :
          clients[c].locked => c \in DOMAIN clients' /\ clients'[c] = clients[c]]_vars

\* a deposit with a valid amount was consumed for an account that is locked
\* (a deposit never locks, so the account was locked when the record came)
C2_Witness ==
    /\ t # <<>>
    /\ t[1].category = "Deposit"
    /\ t[1].amount = Some(1)
    /\ clients[t[1].client_id].locked
    /\ result = "running"

\* C3: a withdrawal of a valid amount on an unlocked account succeeds exactly
\* when amount <= available (the boundary included), decreasing available and
\* total by the amount; otherwise nothing changes and no error is returned.
C3_WithdrawalSucceedsIffFunds ==
    [][(/\ Consumed
        /\ t'[1].category = "Withdrawal"
        /\ t'[1].amount # None
        /\ unwrap(t'[1].amount) > 0
        /\ ~Pre(t'[1].client_id).locked)
       => LET c == t'[1].client_id
              amount == unwrap(t'[1].amount)
          IN  IF amount <= Pre(c).available
              THEN /\ Post(c).available = Pre(c).available - amount
                   /\ Post(c).total = Pre(c).total - amount
                   /\ result' = "running"
              ELSE /\ LedgersUnchanged
                   /\ StoresUnchanged
                   /\ result' = "running"]_vars

\* C4: a withdrawal that changes available leaves it >= 0.
C4_WithdrawalKeepsAvailableNonNegative ==
    [][(/\ Consumed
        /\ t'[1].category = "Withdrawal"
        /\ Post(t'[1].client_id).available # Pre(t'[1].client_id).available)
       => Post(t'[1].client_id).available >= 0]_vars

\* the second record was a withdrawal that took 1 out of a deposit of 2
C4_Witness ==
    /\ csv_line = 2
    /\ t[1].category = "Withdrawal"
    /\ t[1].amount = Some(1)
    /\ clients[t[1].client_id].available = 1
    /\ clients[t[1].client_id].total = 1
    /\ t[1].tx \in DOMAIN transactions_history
    /\ transactions_history[t[1].tx] = t[1]

\* C5: a Deposit, Resolve or Chargeback never makes available, held or total
\* of the record's account negative.
C5_NoNegativeBalances ==
    [][(/\ Consumed
        /\ t'[1].category \in {"Deposit", "Resolve", "Chargeback"})
       => LET c == t'[1].client_id
          IN  /\ Pre(c).available >= 0 => Post(c).available >= 0
              /\ Pre(c).held >= 0 => Post(c).held >= 0
              /\ Pre(c).total >= 0 => Post(c).total >= 0]_vars

\* C6: a Dispute whose id is absent from history, already under dispute, or
\* recorded with a kind other than Deposit changes nothing and is no error.
C6_DisputeNoOp ==
    [][(/\ Consumed
        /\ t'[1].category = "Dispute"
        /\ \/ t'[1].tx \notin DOMAIN transactions_history
           \/ t'[1].tx \in ongoing_disputes
           \/ transactions_history[t'[1].tx].category # "Deposit")
       => /\ LedgersUnchanged
          /\ StoresUnchanged
          /\ result' = "running"]_vars

\* deposit, dispute, and the same dispute again: the amount is held once
C6_Witness ==
    /\ csv_line = 3
    /\ t[1].category = "Dispute"
    /\ t[1].tx \in ongoing_disputes
    /\ ~clients[t[1].client_id].locked
    /\ clients[t[1].client_id].held = unwrap(transactions_history[t[1].tx].amount)
    /\ clients[t[1].client_id].available = 0
    /\ Cardinality(DOMAIN clients) = 1

\* C7: a Resolve or Chargeback whose id is not under dispute changes nothing
\* (ledgers, locked flags, history, dispute set) and is no error.
C7_CloseWithoutDisputeNoOp ==
    [][(/\ Consumed
        /\ t'[1].category \in {"Resolve", "Chargeback"}
        /\ t'[1].tx \notin ongoing_disputes)
       => /\ LedgersUnchanged
          /\ StoresUnchanged
          /\ result' = "running"]_vars

\* a chargeback named a recorded deposit that was not under dispute: the
\* account is not locked afterwards
C7_Witness ==
    /\ t # <<>>
    /\ t[1].category = "Chargeback"
    /\ t[1].tx \in DOMAIN transactions_history
    /\ transactions_history[t[1].tx].category = "Deposit"
    /\ transactions_history[t[1].tx].client_id = t[1].client_id
    /\ ~clients[t[1].client_id].locked
    /\ clients[t[1].client_id].available > 0
    /\ result = "running"

\* C8: a Dispute on an unlocked account naming a recorded Deposit that is not
\* under dispute moves the deposit's amount from available to held, leaves
\* total and locked alone and puts the id into the dispute set.
C8_DisputeMovesAmountToHeld ==
    [][(/\ Consumed
        /\ t'[1].category = "Dispute"
        /\ ~Pre(t'[1].client_id).locked
        /\ t'[1].tx \in DOMAIN transactions_history
        /\ transactions_history[t'[1].tx].category = "Deposit"
        /\ t'[1].tx \notin ongoing_disputes)
       => LET c == t'[1].client_id
              amount == unwrap(transactions_history[t'[1].tx].amount)
          IN  /\ Post(c).available = Pre(c).available - amount
              /\ Post(c).held = Pre(c).held + amount
              /\ Post(c).total = Pre(c).total
              /\ Post(c).locked = Pre(c).locked
              /\ ongoing_disputes' = ongoing_disputes \cup {t'[1].tx}
              /\ transactions_history' = transactions_history
              /\ result' = "running"]_vars

\* deposit of 2, then its dispute: 2 held, nothing available
C8_Witness ==
    /\ csv_line = 2
    /\ t[1].category = "Dispute"
    /\ t[1].tx \in ongoing_disputes
    /\ clients[t[1].client_id].held = 2
    /\ clients[t[1].client_id].available = 0
    /\ clients[t[1].client_id].total = 2

\* C9: a Chargeback on an unlocked account naming an id under dispute takes
\* the recorded amount out of held and total, leaves available alone, locks
\* the account and removes the id from the dispute set.
C9_ChargebackRemovesHeld ==
    [][(/\ Consumed
        /\ t'[1].category = "Chargeback"
        /\ ~Pre(t'[1].client_id).locked
        /\ t'[1].tx \in ongoing_disputes)
       => LET c == t'[1].client_id
              amount == unwrap(transactions_history[t'[1].tx].amount)
          IN  /\ Post(c).held = Pre(c).held - amount
              /\ Post(c).total = Pre(c).total - amount
              /\ Post(c).available = Pre(c).available
              /\ Post(c).locked
              /\ ongoing_disputes' = ongoing_disputes \ {t'[1].tx}]_vars

\* C10: once a chargeback was applied to an id, no later record puts the id
\* back under dispute or changes a balance by naming it.
C10_ChargedBackIsTerminal ==
    [][\A x \in charged_back :
          /\ x \notin ongoing_disputes'
          /\ (/\ Consumed
              /\ t'[1].tx = x
              /\ t'[1].category \in {"Dispute", "Resolve", "Chargeback"})
             => LedgersUnchanged]_vars
\* C11: a chargeback applied to id X locks the account that owns X (the
\* client_id of the history record of X) and changes no other account.
C11_ChargebackLocksOwner ==
    [][(/\ Consumed
        /\ t'[1].category = "Chargeback"
        /\ t'[1].tx \in charged_back' \ charged_back)
       => LET owner == transactions_history[t'[1].tx].client_id
          IN  /\ Post(owner).locked
              /\ \A c \in ClientIds \ {owner} : Post(c) = Pre(c)]_vars

\* the records of the input whose client is c
RecordsOf(c) ==
    {rec \in DepositRecords \cup WithdrawalRecords \cup DisputeRecords
                \cup ResolveRecords \cup ChargebackRecords : rec.client_id = c}

\* C12: on an unlocked account, Dispute(X) then Resolve(X) by the same
\* client on a recorded, undisputed deposit X restores ledger, history and
\* dispute set, and X can then be disputed again with the same effect.
C12_DisputeResolveRoundTrip ==
    \A c \in ClientIds : \A x \in DOMAIN transactions_history :
        (/\ ~entry_or_default(clients, c).locked
         /\ transactions_history[x].category = "Deposit"
         /\ x \notin ongoing_disputes)
        => LET before == entry_or_default(clients, c)
               d == process_record(Transaction("Dispute", c, x, None), before,
                                   transactions_history, ongoing_disputes)
               r == process_record(Transaction("Resolve", c, x, None), d.client,
                                   d.history, d.disputes)
               again == process_record(Transaction("Dispute", c, x, None), r.client,
                                       r.history, r.disputes)
           IN  /\ d.client # before
               /\ x \in d.disputes
               /\ r.client = before
               /\ r.history = transactions_history
               /\ r.disputes = ongoing_disputes
               /\ r.result = "running"
               /\ again = d

\* a resolve was consumed for a recorded deposit of its own client that is
\* no longer under dispute, while another deposit of that client is held
C12_Witness ==
    /\ t # <<>>
    /\ t[1].category = "Resolve"
    /\ t[1].tx \in DOMAIN transactions_history
    /\ transactions_history[t[1].tx].category = "Deposit"
    /\ transactions_history[t[1].tx].client_id = t[1].client_id
    /\ t[1].tx \notin ongoing_disputes
    /\ ~clients[t[1].client_id].locked
    /\ clients[t[1].client_id].held > 0
    /\ clients[t[1].client_id].available > 0

\* C13: a history entry, once made, is never removed and never replaced.
C13_HistoryAppendOnly ==
    [][\A x \in DOMAIN transactions_history :
          /\ x \in DOMAIN transactions_history'
          /\ transactions_history'[x] = transactions_history[x]]_vars

\* C14: a Deposit or Withdrawal that reuses the id of an earlier recorded
\* Deposit/Withdrawal ends the run with an error and is not applied.
C14_DuplicateIdIsFatal ==
    [][(/\ Consumed
        /\ t'[1].category \in {"Deposit", "Withdrawal"}
        /\ t'[1].tx \in DOMAIN transactions_history
        /\ ~Pre(t'[1].client_id).locked)
       => /\ result' \in {"Err", "panic"}
          /\ LedgersUnchanged
          /\ StoresUnchanged]_vars

\* C15: a Deposit on an unlocked account is applied iff its amount is >= 0:
\* applied, it adds the amount to available and total, leaves held and locked
\* and records itself in the history; a negative amount is an error and
\* changes nothing.
C15_DepositAppliedIffNonNegative ==
    [][(/\ Consumed
        /\ t'[1].category = "Deposit"
        /\ t'[1].amount # None
        /\ ~Pre(t'[1].client_id).locked
        /\ Pre(t'[1].client_id).total + unwrap(t'[1].amount) <= F64_MAX)
       => LET c == t'[1].client_id
              amount == unwrap(t'[1].amount)
          IN  IF amount >= 0
              THEN /\ Post(c).available = Pre(c).available + amount
                   /\ Post(c).total = Pre(c).total + amount
                   /\ Post(c).held = Pre(c).held
                   /\ Post(c).locked = Pre(c).locked
                   /\ t'[1].tx \in DOMAIN transactions_history'
                   /\ transactions_history'[t'[1].tx] = t'[1]
                   /\ result' = "running"
              ELSE /\ result' = "Err"
                   /\ LedgersUnchanged
                   /\ StoresUnchanged]_vars

\* C16: a record of one client does not change what any record of another
\* client does to that other client's account.
C16_OtherClientsDoNotInterfere ==
    [][(/\ Consumed
        /\ result' = "running")
       => \A a \in ClientIds \ {t'[1].client_id} : \A ra \in RecordsOf(a) :
             process_record(ra, Post(a), transactions_history', ongoing_disputes').client
               = process_record(ra, Pre(a), transactions_history, ongoing_disputes).client]_vars

\* C17: a record for which process_transactions fails leaves available, held
\* and total of every account as they were.
C17_ErrorLeavesBalances ==
    [][(/\ Consumed
        /\ result' \in {"Err", "panic"})
       => LedgersUnchanged]_vars

\* C18: a Deposit without amount makes the run fail, whatever the state of
\* its account.
C18_MissingAmountFailsRun ==
    [][(/\ Consumed
        /\ t'[1].category = "Deposit"
        /\ t'[1].amount = None)
       => result' \in {"Err", "panic"}]_vars

\* C19: every id under dispute is a key of the history and its record there
\* is a Deposit.
C19_DisputedIdsAreDeposits ==
    \A x \in ongoing_disputes :
        /\ x \in DOMAIN transactions_history
        /\ transactions_history[x].category = "Deposit"

\* the sum of the recorded amounts of the ids in S
RECURSIVE SumAmounts(_)
SumAmounts(S) ==
    IF S = {}
    THEN 0
    ELSE LET x == CHOOSE y \in S : TRUE
         IN  unwrap(transactions_history[x].amount) + SumAmounts(S \ {x})

\* the deposits of client c that are under dispute
DisputedDepositsOf(c) ==
    {x \in ongoing_disputes :
        /\ x \in DOMAIN transactions_history
        /\ transactions_history[x].category = "Deposit"
        /\ transactions_history[x].client_id = c}

\* C20: held of every client is the sum of the amounts of the client's own
\* deposits that are under dispute.
C20_HeldIsSumOfOwnDisputes ==
    \A c \in ClientIds :
        entry_or_default(clients, c).held = SumAmounts(DisputedDepositsOf(c))
====
